---- MODULE Spec2Model ----
(***************************************************************************)
(* A model of the Forth evaluator of src/src/forth.rs: the interpreter     *)
(* instance (stack, definitions), eval's token loop with its working       *)
(* stack, the recursive execution of word bodies (an explicit frame        *)
(* stack), token classification and the eight built-in operators.          *)
(***************************************************************************)
EXTENDS Integers, Sequences, FiniteSets, TLC

VARIABLES
  stack,         \* Forth.stack: the stack that stack() exposes
  definitions,   \* Forth.definitions: the dictionary, a sequence of Variable
  frames,        \* the running evaluate_character loops: eval's loop first, then nested bodies
  work,          \* eval's local `stack`: the working stack of the running call
  result,        \* what the last eval call returned: "none", "Ok", an Error or "Panic"
  pc,            \* "idle" (no call running), "running", "panicked"
  used,          \* phrases handed to eval so far in this session
  stack0,        \* stack() when the last call started
  definitions0,  \* the dictionary when the last call started
  input,         \* the tokens of the last call's text
  snapshots,     \* snapshots[k]: the dictionary as it was when entry k was pushed
  last           \* the last token dispatch: what was classified, where, on which working stack

vars ==
  <<stack, definitions, frames, work, result, pc, used, stack0, definitions0,
    input, snapshots, last>>

----------------------------------------------------------------------------
(* Bounds *)

\* phrases (single tokens or whole `: name body ;` definitions) per session
MaxPhrases == 4
\* operand literals before the operator in an arithmetic program
MaxArgs == 3

----------------------------------------------------------------------------
(* Value = i32 *)

MaxValue == 2147483647
MinValue == -MaxValue - 1

\* every intermediate value of the operators below is itself within Value

\* a + b is outside Value
AddOverflows(a, b) ==
  \/ a > 0 /\ b > MaxValue - a
  \/ a < 0 /\ b < MinValue - a

\* a.wrapping_add(b): a + b modulo 2^32
WrapAdd(a, b) ==
  IF a > 0 /\ b > MaxValue - a THEN (a + MinValue) + (b + MinValue)
  ELSE IF a < 0 /\ b < MinValue - a THEN (a - MinValue) + (b - MinValue)
  ELSE a + b

\* a.wrapping_neg()
WrapNeg(a) == IF a = MinValue THEN MinValue ELSE -a

\* b - a is outside Value
SubOverflows(b, a) ==
  \/ a < 0 /\ b > MaxValue + a
  \/ a > 0 /\ b < MinValue + a

\* b.wrapping_sub(a)
WrapSub(b, a) == WrapAdd(b, WrapNeg(a))

\* b * a is outside Value
MulOverflows(b, a) ==
  IF a = 0 \/ b = 0 \/ a = 1 \/ b = 1 THEN FALSE
  ELSE IF a = MinValue \/ b = MinValue THEN TRUE
  ELSE
    LET m == IF a < 0 THEN -a ELSE a
        n == IF b < 0 THEN -b ELSE b
    IN
    IF (a < 0) = (b < 0) THEN n > MaxValue \div m
    ELSE /\ n > MaxValue \div m
         /\ ~(MaxValue % m = m - 1 /\ n = (MaxValue \div m) + 1)

\* byte k of the two's complement form of x
Byte(x, k) ==
  CASE k = 0 -> x % 256
    [] k = 1 -> (x \div 256) % 256
    [] k = 2 -> (x \div 65536) % 256
    [] k = 3 -> (x \div 16777216) % 256

\* b.wrapping_mul(a): b * a modulo 2^32, byte by byte with carries
WrapMul(b, a) ==
  LET c0 == Byte(a, 0) * Byte(b, 0)
      c1 == Byte(a, 0) * Byte(b, 1) + Byte(a, 1) * Byte(b, 0) + (c0 \div 256)
      c2 == Byte(a, 0) * Byte(b, 2) + Byte(a, 1) * Byte(b, 1)
              + Byte(a, 2) * Byte(b, 0) + (c1 \div 256)
      c3 == Byte(a, 0) * Byte(b, 3) + Byte(a, 1) * Byte(b, 2)
              + Byte(a, 2) * Byte(b, 1) + Byte(a, 3) * Byte(b, 0) + (c2 \div 256)
      r3 == c3 % 256
  IN
  (IF r3 >= 128 THEN r3 - 256 ELSE r3) * 16777216
    + (c2 % 256) * 65536 + (c1 % 256) * 256 + (c0 % 256)

\* b / a for a > 0, truncated toward zero
TruncDivPos(b, a) ==
  IF b < 0 /\ b % a # 0 THEN (b \div a) + 1 ELSE b \div a

\* b / a for a # 0 and not (b = MinValue and a = -1): i32 division truncates
\* toward zero
TruncDiv(b, a) ==
  IF a > 0 THEN TruncDivPos(b, a)
  ELSE IF a = MinValue THEN (IF b = MinValue THEN 1 ELSE 0)
  ELSE -TruncDivPos(b, -a)

----------------------------------------------------------------------------
(* Tokens: the strings split_whitespace can yield that the model draws on *)

NumberTokens ==
  {"0", "1", "2", "-1", "+5", "-7", "2147483647", "-2147483648"}

\* str::parse::<i32>: the value of a token that parses
ParseValue(val) ==
  CASE val = "0" -> 0
    [] val = "1" -> 1
    [] val = "2" -> 2
    [] val = "-1" -> -1
    [] val = "+5" -> 5
    [] val = "-7" -> -7
    [] val = "2147483647" -> MaxValue
    [] val = "-2147483648" -> MinValue

Parses(val) == val \in NumberTokens

\* str::to_uppercase
to_uppercase(val) ==
  CASE val = "dup" -> "DUP"
    [] val = "Dup" -> "DUP"
    [] val = "drop" -> "DROP"
    [] val = "swap" -> "SWAP"
    [] val = "Swap" -> "SWAP"
    [] val = "over" -> "OVER"
    [] val = "foo" -> "FOO"
    [] val = "Foo" -> "FOO"
    [] val = "bar" -> "BAR"
    [] val = "1foo" -> "1FOO"
    [] OTHER -> val

\* chars().nth(0) of the token is a decimal digit
FirstCharIsDigit(val) ==
  val \in {"0", "1", "2", "2147483647", "1foo", "1FOO"}

OperatorNames == {"+", "-", "*", "/", "DUP", "DROP", "SWAP", "OVER"}

----------------------------------------------------------------------------
(* Operator::operate: each arm yields the set of its outcomes, the error (or
   "none") and the stack as the arm leaves it *)

Outcome(e, s) == [err |-> e, stack |-> s]

Top(s) == s[Len(s)]
Pop(s) == SubSeq(s, 1, Len(s) - 1)

\* a.add(b), b.sub(a), b.mul(a): an overflow panics with overflow checks on
\* (debug build) and wraps with them off (release build)
Arith(overflows, wrapped, rest) ==
  IF overflows THEN {Outcome("Panic", rest), Outcome("none", Append(rest, wrapped))}
  ELSE {Outcome("none", Append(rest, wrapped))}

OpAdd(s) ==
  IF Len(s) < 2 THEN {Outcome("StackUnderflow", s)}
  ELSE LET a == Top(s)
           b == Top(Pop(s))
       IN Arith(AddOverflows(a, b), WrapAdd(a, b), Pop(Pop(s)))

\* as OpSub, with the operands the other way round
OpSubReversed(s) ==
  IF Len(s) < 2 THEN {Outcome("StackUnderflow", s)}
  ELSE LET a == Top(s)
           b == Top(Pop(s))
       IN Arith(SubOverflows(a, b), WrapSub(a, b), Pop(Pop(s)))

OpSub(s) ==
  IF Len(s) < 2 THEN {Outcome("StackUnderflow", s)}
  ELSE LET a == Top(s)
           b == Top(Pop(s))
       IN Arith(SubOverflows(b, a), WrapSub(b, a), Pop(Pop(s)))

OpMul(s) ==
  IF Len(s) < 2 THEN {Outcome("StackUnderflow", s)}
  ELSE LET a == Top(s)
           b == Top(Pop(s))
       IN Arith(MulOverflows(b, a), WrapMul(b, a), Pop(Pop(s)))

\* as OpDiv, testing the divisor before the depth
OpDivZeroFirst(s) ==
  IF Len(s) >= 1 /\ Top(s) = 0 THEN {Outcome("DivisionByZero", Pop(s))}
  ELSE IF Len(s) < 2 THEN {Outcome("StackUnderflow", s)}
  ELSE LET a == Top(s)
           b == Top(Pop(s))
           rest == Pop(Pop(s))
       IN IF b = MinValue /\ a = -1 THEN {Outcome("Panic", rest)}
          ELSE {Outcome("none", Append(rest, TruncDiv(b, a)))}

\* b.div(a) panics on MinValue / -1 in every build
OpDiv(s) ==
  IF Len(s) < 2 THEN {Outcome("StackUnderflow", s)}
  ELSE LET a == Top(s)
           b == Top(Pop(s))
           rest == Pop(Pop(s))
       IN IF a = 0 THEN {Outcome("DivisionByZero", rest)}
          ELSE IF b = MinValue /\ a = -1 THEN {Outcome("Panic", rest)}
          ELSE {Outcome("none", Append(rest, TruncDiv(b, a)))}

OpDup(s) ==
  IF Len(s) < 1 THEN {Outcome("StackUnderflow", s)}
  ELSE LET a == Top(s)
       IN {Outcome("none", Append(Append(Pop(s), a), a))}

OpDrop(s) ==
  IF Len(s) < 1 THEN {Outcome("StackUnderflow", s)}
  ELSE {Outcome("none", Pop(s))}

OpSwap(s) ==
  IF Len(s) < 2 THEN {Outcome("StackUnderflow", s)}
  ELSE LET a == Top(s)
           b == Top(Pop(s))
       IN {Outcome("none", Append(Append(Pop(Pop(s)), a), b))}

\* as OpOver, copying the top instead of the value under it
OpOverTop(s) ==
  IF Len(s) < 2 THEN {Outcome("StackUnderflow", s)}
  ELSE LET a == Top(s)
           b == Top(Pop(s))
       IN {Outcome("none", Append(Append(Append(Pop(Pop(s)), b), a), a))}

OpOver(s) ==
  IF Len(s) < 2 THEN {Outcome("StackUnderflow", s)}
  ELSE LET a == Top(s)
           b == Top(Pop(s))
       IN {Outcome("none", Append(Append(Append(Pop(Pop(s)), b), a), b))}

operate(op, s) ==
  CASE op = "+" -> OpAdd(s)
    [] op = "-" -> OpSub(s)
    [] op = "*" -> OpMul(s)
    [] op = "/" -> OpDiv(s)
    [] op = "DUP" -> OpDup(s)
    [] op = "DROP" -> OpDrop(s)
    [] op = "SWAP" -> OpSwap(s)
    [] op = "OVER" -> OpOver(s)

----------------------------------------------------------------------------
(* Forth::evaluate_input: token classification *)

\* indices of the entries of defs named like val, uppercased
Matches(val, defs) ==
  {k \in 1..Len(defs) : defs[k].word = to_uppercase(val)}

Max(S) == CHOOSE m \in S : \A n \in S : n <= m

\* as evaluate_input, trying the built-in operators before the user's words
evaluate_input_builtins_first(val, defs) ==
  IF val = ":" THEN [kind |-> "Definition", index |-> 0]
  ELSE IF to_uppercase(val) \in OperatorNames
    THEN [kind |-> "Operator", index |-> 0]
  ELSE IF Matches(val, defs) # {}
    THEN [kind |-> "Variable", index |-> Max(Matches(val, defs))]
  ELSE IF Parses(val) THEN [kind |-> "Number", index |-> 0]
  ELSE [kind |-> "Void", index |-> 0]

\* [kind, index]: index is the position in defs of the entry a Variable binds
evaluate_input(val, defs) ==
  IF val = ":" THEN [kind |-> "Definition", index |-> 0]
  ELSE IF Matches(val, defs) # {}
    THEN [kind |-> "Variable", index |-> Max(Matches(val, defs))]
  ELSE IF to_uppercase(val) \in OperatorNames
    THEN [kind |-> "Operator", index |-> 0]
  ELSE IF Parses(val) THEN [kind |-> "Number", index |-> 0]
  ELSE [kind |-> "Void", index |-> 0]

----------------------------------------------------------------------------
(* The running loops *)

\* one running loop over `input` at index i. view = -1: eval's loop, which
\* sees the whole dictionary; otherwise the definitions_index of the word
\* whose body runs, entry being that word's position in the dictionary and
\* start the working stack the loop was entered with
Frame(tokens, i, view, entry, start) ==
  [input |-> tokens, i |-> i, view |-> view, entry |-> entry, start |-> start]

Cur == frames[Len(frames)]

\* the `definitions` argument of the evaluate_character call about to run
Visible(f) ==
  IF f.view = -1 THEN definitions ELSE SubSeq(definitions, 1, f.view)

\* input.get(*i).unwrap()
CurToken == Cur.input[Cur.i + 1]

Classified == evaluate_input(CurToken, Visible(Cur))

Running == pc = "running" /\ frames # <<>>

\* `i += 1` after a dispatch that returned Ok, and every loop this ends: a
\* finished body returns to its caller, whose index advances in turn
RECURSIVE Advance(_)
Advance(fs) ==
  LET n == Len(fs)
      f == fs[n]
      g == [f EXCEPT !.i = f.i + 1]
  IN
  IF g.i < Len(g.input) THEN [fs EXCEPT ![n] = g]
  ELSE IF n = 1 THEN <<>>
  ELSE Advance(SubSeq(fs, 1, n - 1))

----------------------------------------------------------------------------
(* Forth::new *)

NoDispatch ==
  [tok |-> "", kind |-> "none", index |-> 0, depth |-> 0, entry |-> 0,
   i |-> 0, input |-> <<>>, before |-> <<>>, dict |-> <<>>, frames |-> <<>>]

Init ==
  /\ stack = <<>>
  /\ definitions = <<>>
  /\ frames = <<>>
  /\ work = <<>>
  /\ result = "none"
  /\ pc = "idle"
  /\ used = 0
  /\ stack0 = <<>>
  /\ definitions0 = <<>>
  /\ input = <<>>
  /\ snapshots = <<>>
  /\ last = NoDispatch

----------------------------------------------------------------------------
(* Forth::eval *)

\* the dispatch returned Ok: the loops go on with fs and working stack w, or,
\* with eval's loop over, `self.stack = stack; return Ok(())`
Continue(fs, w) ==
  /\ frames' = fs
  /\ work' = w
  /\ IF fs = <<>>
       THEN /\ stack' = w
            /\ result' = "Ok"
            /\ pc' = "idle"
       ELSE /\ UNCHANGED <<stack, result, pc>>

\* as Abort, had eval assigned the working stack before returning the error
AbortCommitting(e, w) ==
  /\ frames' = <<>>
  /\ work' = w
  /\ result' = e
  /\ pc' = IF e = "Panic" THEN "panicked" ELSE "idle"
  /\ stack' = w

\* as Abort, had the loops noted the error and gone on to the next token
AbortSkipping(e, w) ==
  /\ frames' = Advance(frames)
  /\ work' = w
  /\ result' = e
  /\ pc' = IF Advance(frames) = <<>> \/ e = "Panic" THEN "idle" ELSE pc
  /\ UNCHANGED stack

\* the dispatch returned Err(e) and every `?` up to eval's passes it on (or
\* the thread panicked): self.stack is not assigned
Abort(e, w) ==
  /\ frames' = <<>>
  /\ work' = w
  /\ result' = e
  /\ pc' = IF e = "Panic" THEN "panicked" ELSE "idle"
  /\ UNCHANGED stack

\* the dispatch about to run, for the properties to refer to
Dispatch ==
  [tok |-> CurToken, kind |-> Classified.kind, index |-> Classified.index,
   depth |-> Len(frames), entry |-> Cur.entry, i |-> Cur.i,
   input |-> Cur.input, before |-> work, dict |-> definitions,
   frames |-> frames]

\* as NewWorkingStack, had eval started from the instance's stack
CarriedStack(tokens) == stack

\* Vec::with_capacity(input.len()): the working stack a call starts on
NewWorkingStack(tokens) == <<>>

\* eval(input): input.split_whitespace(), a new working stack, i = 0; cost is
\* what the call takes of the session's budget
eval(tokens, cost) ==
  /\ pc = "idle"
  /\ used + cost <= MaxPhrases
  /\ used' = used + cost
  /\ stack0' = stack
  /\ definitions0' = definitions
  /\ input' = tokens
  /\ last' = NoDispatch
  /\ UNCHANGED <<definitions, snapshots>>
  /\ IF tokens = <<>>
       THEN /\ frames' = <<>>
            /\ work' = NewWorkingStack(tokens)
            /\ stack' = NewWorkingStack(tokens)
            /\ result' = "Ok"
            /\ pc' = "idle"
       ELSE /\ frames' = <<Frame(tokens, 0, -1, 0, NewWorkingStack(tokens))>>
            /\ work' = NewWorkingStack(tokens)
            /\ result' = "none"
            /\ pc' = "running"
            /\ UNCHANGED stack

----------------------------------------------------------------------------
(* Forth::evaluate_character, one action per arm of its match *)

\* InputValue::Number(num) => stack.push(num)
Number ==
  /\ Running
  /\ Classified.kind = "Number"
  /\ last' = Dispatch
  /\ Continue(Advance(frames), Append(work, ParseValue(CurToken)))
  /\ UNCHANGED <<definitions, used, stack0, definitions0, input, snapshots>>

\* InputValue::Operator(op) => op.operate(stack)?
Operator ==
  /\ Running
  /\ Classified.kind = "Operator"
  /\ last' = Dispatch
  /\ \E o \in operate(to_uppercase(CurToken), work) :
       IF o.err = "none" THEN Continue(Advance(frames), o.stack)
       ELSE Abort(o.err, o.stack)
  /\ UNCHANGED <<definitions, used, stack0, definitions0, input, snapshots>>

\* as TakeBody, had the body taken its closing `;` too
RECURSIVE TakeThroughTerminator(_, _)
TakeThroughTerminator(tokens, from) ==
  IF from > Len(tokens) THEN <<>>
  ELSE IF tokens[from] = ";" THEN <<";">>
  ELSE <<tokens[from]>> \o TakeThroughTerminator(tokens, from + 1)

\* skip(*i + 2) ... take_while(|x| x != ";"), from being 1-based
RECURSIVE TakeBody(_, _)
TakeBody(tokens, from) ==
  IF from > Len(tokens) \/ tokens[from] = ";" THEN <<>>
  ELSE <<tokens[from]>> \o TakeBody(tokens, from + 1)

\* input.iter().position(|x| x == &";") is Some: the search starts at the
\* first token of the input, whatever the index i of the `:`
HasTerminator(tokens, i) == \E k \in 1..Len(tokens) : tokens[k] = ";"

\* as DigitLed, without the check
DigitLedNever(name) == FALSE

\* definition_name's first char is a digit
DigitLed(name) == FirstCharIsDigit(name)

\* a Variable whose snapshot index lies past its own position
NewVariableSeeingItself(name, body, defs) ==
  [word |-> to_uppercase(name), definition |-> body,
   definitions_index |-> Len(defs) + 1]

\* the Variable the Definition arm pushes
NewVariable(name, body, defs) ==
  [word |-> to_uppercase(name), definition |-> body, definitions_index |-> Len(defs)]

\* a definition that leaves the index on the word's name
SkipColonOnly(i, definition) == i + 1

\* `*i += definition.len() + 2`: the index is left on the closing `;`
SkipDefinition(i, definition) == i + Len(definition) + 2

\* InputValue::Definition
Definition ==
  /\ Running
  /\ Classified.kind = "Definition"
  /\ last' = Dispatch
  /\ LET tokens == Cur.input
         body == TakeBody(tokens, Cur.i + 3)
     IN
     IF ~HasTerminator(tokens, Cur.i) \/ Len(body) < 1
       THEN Abort("InvalidWord", work) /\ UNCHANGED <<definitions, snapshots>>
     ELSE IF DigitLed(tokens[Cur.i + 2])
       THEN Abort("InvalidWord", work) /\ UNCHANGED <<definitions, snapshots>>
     ELSE
       /\ definitions' = Append(definitions, NewVariable(tokens[Cur.i + 2], body, definitions))
       /\ snapshots' = Append(snapshots, definitions)
       /\ Continue(Advance([frames EXCEPT ![Len(frames)].i = SkipDefinition(Cur.i, body)]), work)
  /\ UNCHANGED <<used, stack0, definitions0, input>>

\* as BodyView, had the body seen the whole dictionary of the time it runs
BodyViewLatest(variable) == Len(definitions)

\* as BodyView, had the body seen its own entry too
BodyViewInclusive(variable) == variable.definitions_index + 1

\* the bound split_at(variable.definitions_index) puts on what the body sees
BodyView(variable) == variable.definitions_index

\* InputValue::Variable(variable): run the body on the same working stack
Variable ==
  /\ Running
  /\ Classified.kind = "Variable"
  /\ last' = Dispatch
  /\ LET variable == Visible(Cur)[Classified.index] IN
     IF Len(variable.definition) = 0 THEN Continue(Advance(frames), work)
     ELSE Continue(Append(frames,
                          Frame(variable.definition, 0, BodyView(variable),
                                Classified.index, work)),
                   work)
  /\ UNCHANGED <<definitions, used, stack0, definitions0, input, snapshots>>

\* InputValue::Void => return Err(Error::UnknownWord)
Void ==
  /\ Running
  /\ Classified.kind = "Void"
  /\ last' = Dispatch
  /\ Abort("UnknownWord", work)
  /\ UNCHANGED <<definitions, used, stack0, definitions0, input, snapshots>>

evaluate_character == Number \/ Operator \/ Definition \/ Variable \/ Void

----------------------------------------------------------------------------
(* The texts handed to eval *)

\* a well-formed definition
Def(name, body) == <<":", name>> \o body \o <<";">>

RECURSIVE Flatten(_)
Flatten(ps) == IF ps = <<>> THEN <<>> ELSE Head(ps) \o Flatten(Tail(ps))

SeqsUpTo(S, n) == UNION {[1..k -> S] : k \in 0..n}

Cost(ps) == IF ps = <<>> THEN 1 ELSE Len(ps)

\* any call on a text made of phrases of P, while the session's budget lasts
Call(P) ==
  /\ pc = "idle"
  /\ \E ps \in SeqsUpTo(P, MaxPhrases - used) : eval(Flatten(ps), Cost(ps))

\* one call, on a new interpreter, on a text of T
CallOnce(T) ==
  /\ pc = "idle"
  /\ used = 0
  /\ \E tokens \in T : eval(tokens, MaxPhrases)

Singles(T) == {<<t>> : t \in T}

\* errors and definitions: every fault eval can return, inside and outside a body
Phrases ==
  Singles({"1", "0", "/", ":", ";", "foo", "1foo"})
    \cup {Def("foo", <<"/">>), Def("foo", <<"1", "0", "/">>),
          Def("foo", <<":", "foo", "1">>)}

Next == Call(Phrases) \/ evaluate_character

Spec == Init /\ [][Next]_vars

\* words that name other words, redefined
RedefPhrases ==
  Singles({"foo", "bar", "+"})
    \cup {Def("bar", <<"1">>), Def("bar", <<"2">>), Def("foo", <<"bar">>),
          Def("foo", <<"bar", "bar", "+">>)}

NextRedef == Call(RedefPhrases) \/ evaluate_character

SpecRedef == Init /\ [][NextRedef]_vars

\* words whose bodies name themselves, and words named like built-ins and numbers
SelfPhrases ==
  Singles({"1", "foo", "swap", "SWAP", "-1"})
    \cup {Def("foo", <<"foo">>), Def("foo", <<"1">>), Def("swap", <<"swap">>),
          Def("Swap", <<"dup">>), Def("-1", <<"1">>)}

NextSelf == Call(SelfPhrases) \/ evaluate_character

SpecSelf == Init /\ [][NextSelf]_vars

\* eval runs to completion once called: the loop of eval and the loops of
\* the Variable arm have no exit but their end and an error
SpecSelfFair == SpecSelf /\ WF_vars(evaluate_character)

\* arithmetic programs: operands, then a word, at top level or in a body
ArithNumbers == {"0", "1", "2", "-1", "-7", "2147483647", "-2147483648"}

ArithWords == {"+", "-", "*", "/", "dup", "DROP", "Swap", "over", "bar"}

ArithTexts ==
  {ns \o <<w>> : ns \in SeqsUpTo(ArithNumbers, MaxArgs), w \in ArithWords}
    \cup {Def("foo", <<w>>) \o ns \o <<"foo">> :
            ns \in SeqsUpTo(ArithNumbers, MaxArgs), w \in {"/", "over"}}

NextArith == CallOnce(ArithTexts) \/ evaluate_character

SpecArith == Init /\ [][NextArith]_vars

----------------------------------------------------------------------------
(* Properties *)

Errors == {"DivisionByZero", "StackUnderflow", "UnknownWord", "InvalidWord"}

\* the last call returned an error
Failed == pc = "idle" /\ result \in Errors

\* C1: when eval returns an error, stack() is what it was before the call,
\* whatever was executed before the failing token, at top level or in a body
C1_ErrorLeavesStack == Failed => stack = stack0

\* a division by zero inside a word body, after the body pushed operands, in a
\* call made while stack() was not empty
C1_Witness ==
  /\ Failed
  /\ result = "DivisionByZero"
  /\ last.depth = 2
  /\ Len(last.before) >= 2
  /\ stack0 # <<>>
  /\ stack = stack0

\* C2: when eval returns an error, the dictionary is what it was before the
\* call (a word defined earlier in the failing text is not defined afterwards)
C2_ErrorLeavesDictionary == Failed => definitions = definitions0

\* the most recent entry of defs named name
MostRecent(name, defs) ==
  CHOOSE k \in 1..Len(defs) :
    /\ defs[k].word = name
    /\ \A j \in (k + 1)..Len(defs) : defs[j].word # name

Named(name, defs) == \E k \in 1..Len(defs) : defs[k].word = name

\* the dictionary as it was when the word whose body dispatched `last` was
\* defined; for a top-level dispatch, the dictionary of that moment
KnownThen == IF last.entry = 0 THEN last.dict ELSE snapshots[last.entry]

\* C3: a name in word A's body runs the definition that was the most recent
\* one of that name when A was defined, whatever was defined since; a
\* top-level use runs the newest definition
C3_RedefinitionIndependence ==
  last.kind = "Variable" =>
    LET name == to_uppercase(last.tok) IN
    /\ Named(name, KnownThen)
    /\ last.index = MostRecent(name, KnownThen)
    /\ definitions[last.index] = KnownThen[last.index]
    /\ Running
    /\ Cur.i = 0
    /\ Cur.input = KnownThen[last.index].definition

\* a word's body names a word that was redefined, with another body, after
\* the word was defined, and runs the old definition
C3_Witness ==
  /\ last.kind = "Variable"
  /\ last.entry # 0
  /\ \E j \in (last.entry + 1)..Len(definitions) :
       /\ definitions[j].word = to_uppercase(last.tok)
       /\ definitions[j].definition # Cur.input
  /\ last.index < last.entry

\* C4: while the body of entry k runs, its own name never resolves to entry k
\* or a later one: it resolves to the most recent earlier entry of that name,
\* else to the built-in of that name, else to a number, else the call fails
\* with UnknownWord
C4_NoSelfReference ==
  (last.kind # "none" /\ last.entry # 0
     /\ to_uppercase(last.tok) = last.dict[last.entry].word) =>
    LET name == to_uppercase(last.tok)
        earlier == SubSeq(last.dict, 1, last.entry - 1)
    IN
    /\ last.kind = "Variable" => last.index < last.entry
    /\ IF Named(name, earlier)
         THEN last.kind = "Variable" /\ last.index = MostRecent(name, earlier)
       ELSE IF name \in OperatorNames THEN last.kind = "Operator"
       ELSE IF Parses(last.tok) THEN last.kind = "Number"
       ELSE last.kind = "Void" /\ Failed /\ result = "UnknownWord"

\* a word whose body names the word itself, no earlier word of that name
\* existing, was invoked and the call failed with UnknownWord
C4_Witness ==
  /\ last.entry # 0
  /\ to_uppercase(last.tok) = last.dict[last.entry].word
  /\ ~Named(to_uppercase(last.tok), SubSeq(last.dict, 1, last.entry - 1))
  /\ result = "UnknownWord"

\* the `:` the last dispatch was about is at this place of its input, 1-based
ColonAt == last.i + 1

\* C5: a top-level `:` with no `;` after it fails with InvalidWord and adds
\* nothing to the dictionary, wherever else the text has a `;`
C5_MissingTerminatorRejected ==
  (last.kind = "Definition" /\ last.depth = 1
     /\ \A k \in (ColonAt + 1)..Len(last.input) : last.input[k] # ";") =>
    Failed /\ result = "InvalidWord" /\ definitions = last.dict

\* C6: a definition with an empty body, a missing name or a digit-led name
\* fails with InvalidWord and leaves the dictionary as it was at the `:`
C6_InvalidDefinitionRejected ==
  (/\ last.kind = "Definition"
   /\ \/ Len(last.input) <= ColonAt + 1
      \/ last.input[ColonAt + 2] = ";"
      \/ FirstCharIsDigit(last.input[ColonAt + 1])) =>
    Failed /\ result = "InvalidWord" /\ definitions = last.dict

\* a definition with a terminator and a body, rejected for its digit-led name
C6_Witness ==
  /\ last.kind = "Definition"
  /\ Len(last.input) >= ColonAt + 3
  /\ FirstCharIsDigit(last.input[ColonAt + 1])
  /\ last.input[ColonAt + 2] # ";"
  /\ last.input[ColonAt + 3] = ";"
  /\ result = "InvalidWord"
  /\ definitions = last.dict

\* C7: a top-level token is the `:` marker, else the most recent user word of
\* its uppercased name, else the built-in of its uppercased name, else an
\* integer literal, else unknown (UnknownWord); a user word named like a
\* built-in is what every later use of the name, in any case, invokes
C7_ClassificationPrecedence ==
  (last.kind # "none" /\ last.entry = 0) =>
    LET name == to_uppercase(last.tok) IN
    IF last.tok = ":" THEN last.kind = "Definition"
    ELSE IF Named(name, last.dict)
      THEN /\ last.kind = "Variable"
           /\ last.index = MostRecent(name, last.dict)
           /\ Running
           /\ Cur.input = last.dict[last.index].definition
    ELSE IF name \in OperatorNames THEN last.kind = "Operator"
    ELSE IF Parses(last.tok) THEN last.kind = "Number"
    ELSE last.kind = "Void" /\ Failed /\ result = "UnknownWord"

\* `SWAP`, after a word named Swap was defined as dup, ran that word: on the
\* one-element stack the built-in would have underflowed on, it left two
C7_Witness ==
  /\ pc = "idle"
  /\ result = "Ok"
  /\ input = <<"1", "SWAP">>
  /\ Named("SWAP", definitions0)
  /\ stack = <<1, 1>>

\* C8: a call starts on an empty working stack whatever stack() holds, so an
\* operator that is the first token of a text underflows; a successful call
\* leaves its working stack as stack(), and keeps the words defined before
C8_FreshWorkingStack ==
  /\ (pc = "running" /\ last.kind = "none") => work = <<>>
  /\ (last.kind = "Operator" /\ last.depth = 1 /\ last.i = 0) =>
       Failed /\ result = "StackUnderflow" /\ stack = stack0
  /\ (pc = "idle" /\ result = "Ok") =>
       /\ stack = work
       /\ Len(definitions) >= Len(definitions0)
       /\ SubSeq(definitions, 1, Len(definitions0)) = definitions0

\* an operator alone in a text underflowed although stack() held two values
C8_Witness ==
  /\ Len(stack0) >= 2
  /\ Len(input) = 1
  /\ last.kind = "Operator"
  /\ result = "StackUnderflow"

\* the operands of the operator `last` dispatched: y on top, x under it
OperandX == last.before[Len(last.before) - 1]
OperandY == last.before[Len(last.before)]
Below == SubSeq(last.before, 1, Len(last.before) - 2)

\* q is x / y truncated toward zero
IsQuotient(q, x, y) ==
  LET r == x - q * y IN
  /\ IF y > 0 THEN -y < r /\ r < y ELSE y < r /\ y < -r
  /\ r = 0 \/ (r < 0) = (x < 0)

\* x OP y is defined and fits in 32 bits
Fits(op, x, y) ==
  CASE op = "+" -> ~AddOverflows(x, y)
    [] op = "-" -> ~SubOverflows(x, y)
    [] op = "*" -> ~MulOverflows(x, y)
    [] op = "/" -> y # 0 /\ ~(x = MinValue /\ y = -1)
    [] OTHER -> FALSE

\* C9: on operands x (under) and y (top), + - * / leave x+y, x-y, x*y, x/y in
\* their place when y is not 0 for / and the result fits in 32 bits, the
\* values below unchanged; the program `x y OP` succeeds with that one value
C9_BinaryOperators ==
  /\ (last.kind = "Operator" /\ Len(last.before) >= 2) =>
       LET x == OperandX
           y == OperandY
       IN
       /\ (last.tok = "+" /\ Fits("+", x, y)) =>
            result \in {"none", "Ok"} /\ work = Append(Below, x + y)
       /\ (last.tok = "-" /\ Fits("-", x, y)) =>
            result \in {"none", "Ok"} /\ work = Append(Below, x - y)
       /\ (last.tok = "*" /\ Fits("*", x, y)) =>
            result \in {"none", "Ok"} /\ work = Append(Below, x * y)
       /\ (last.tok = "/" /\ Fits("/", x, y)) =>
            /\ result \in {"none", "Ok"}
            /\ Len(work) = Len(Below) + 1
            /\ SubSeq(work, 1, Len(Below)) = Below
            /\ IsQuotient(work[Len(work)], x, y)
  /\ (/\ last.kind = "Operator"
      /\ last.depth = 1
      /\ last.i = 2
      /\ Len(last.input) = 3
      /\ Len(last.before) = 2
      /\ Fits(last.tok, OperandX, OperandY)) =>
       pc = "idle" /\ result = "Ok" /\ stack = work /\ Len(stack) = 1

\* `1 2 -` left -1, and `-7 2 /` left -3
C9_Witness ==
  /\ pc = "idle"
  /\ result = "Ok"
  /\ \/ input = <<"1", "2", "-">> /\ stack = <<-1>>
     \/ input = <<"-7", "2", "/">> /\ stack = <<-3>>

\* C10: DUP, DROP, SWAP and OVER on a deep enough stack: [.. x] to [.. x x],
\* [.. x] to [..], [.. x y] to [.. y x], [.. x y] to [.. x y x], the values
\* below unchanged (the length changes by +1, -1, 0, +1)
C10_StackOperators ==
  (last.kind = "Operator") =>
    LET op == to_uppercase(last.tok)
        s == last.before
        n == Len(last.before)
    IN
    /\ (op = "DUP" /\ n >= 1) =>
         result \in {"none", "Ok"} /\ work = s \o <<s[n]>> /\ Len(work) = n + 1
    /\ (op = "DROP" /\ n >= 1) =>
         result \in {"none", "Ok"} /\ work = SubSeq(s, 1, n - 1) /\ Len(work) = n - 1
    /\ (op = "SWAP" /\ n >= 2) =>
         result \in {"none", "Ok"} /\ work = Below \o <<s[n], s[n - 1]>> /\ Len(work) = n
    /\ (op = "OVER" /\ n >= 2) =>
         result \in {"none", "Ok"} /\ work = s \o <<s[n - 1]>> /\ Len(work) = n + 1

\* OVER ran on three values, the two on top different, and copied the second
C10_Witness ==
  /\ last.kind = "Operator"
  /\ to_uppercase(last.tok) = "OVER"
  /\ Len(last.before) = 3
  /\ last.before[2] # last.before[3]
  /\ work = last.before \o <<last.before[2]>>

\* the depth an operator requires
RequiredDepth(op) == IF op \in {"DUP", "DROP"} THEN 1 ELSE 2

\* C11: an operator on a working stack shallower than it requires (2, or 1
\* for DUP and DROP) fails with StackUnderflow and pops nothing, at top level
\* and in a body; `/` on [0] is StackUnderflow, not DivisionByZero
C11_UnderflowPopsNothing ==
  (last.kind = "Operator"
     /\ Len(last.before) < RequiredDepth(to_uppercase(last.tok))) =>
    Failed /\ result = "StackUnderflow" /\ work = last.before

\* `/` ran inside a word body on the one-element stack [0] and underflowed
C11_Witness ==
  /\ last.kind = "Operator"
  /\ last.tok = "/"
  /\ last.depth = 2
  /\ last.before = <<0>>
  /\ result = "StackUnderflow"
  /\ work = <<0>>

\* running tokens in order from working stack s under the dictionary defs: the
\* set of outcomes, a name of defs[k] running that entry's body under the
\* entries before k. A `:` among the tokens of a body, which hold no `;`,
\* is InvalidWord
RECURSIVE RunTokens(_, _, _)
RunTokens(tokens, s, defs) ==
  IF tokens = <<>> THEN {Outcome("none", s)}
  ELSE
    LET tok == Head(tokens)
        class == evaluate_input(tok, defs)
        first ==
          CASE class.kind = "Number" -> {Outcome("none", Append(s, ParseValue(tok)))}
            [] class.kind = "Operator" -> operate(to_uppercase(tok), s)
            [] class.kind = "Variable" ->
                 RunTokens(defs[class.index].definition, s,
                           SubSeq(defs, 1, class.index - 1))
            [] class.kind = "Definition" -> {Outcome("InvalidWord", s)}
            [] OTHER -> {Outcome("UnknownWord", s)}
    IN
    UNION {IF o.err = "none" THEN RunTokens(Tail(tokens), o.stack, defs) ELSE {o} :
             o \in first}

\* the places, in the loops that were running at the last dispatch, of the
\* word bodies that dispatch brought to their end or to an error
Ended ==
  IF pc # "running" /\ last.kind # "none" THEN 2..Len(last.frames)
  ELSE IF last.kind = "Variable" THEN {}
  ELSE (Len(frames) + 1)..Len(last.frames)

\* C12: invoking the word at entry k on working stack S ends with the working
\* stack, or the error, that running its stored body from S under the
\* entries before k gives; a word defined earlier in the text is usable
C12_InvocationRunsBody ==
  \A n \in Ended :
    LET f == last.frames[n]
        ref == RunTokens(definitions[f.entry].definition, f.start,
                         SubSeq(definitions, 1, f.entry - 1))
    IN
    IF result \in Errors \cup {"Panic"}
      THEN \E o \in ref : o.err = result
      ELSE Outcome("none", work) \in ref

\* a word defined in the running text, whose body invokes another word
\* twice, was invoked later in that text and came to its end
C12_Witness ==
  /\ pc = "idle"
  /\ result = "Ok"
  /\ Len(last.frames) = 2
  /\ last.tok = "+"
  /\ last.frames[2].entry > Len(definitions0)
  /\ Len(definitions[last.frames[2].entry].definition) = 3
  /\ stack = <<2>>

\* C13: when `/` fails with DivisionByZero the working stack it was applied
\* to holds the values it held immediately before, both operands included
C13_DivisionByZeroKeepsOperands ==
  (Failed /\ result = "DivisionByZero" /\ to_uppercase(last.tok) = "/") =>
    work = last.before

\* the last dispatch was a definition that was accepted
Accepted == last.kind = "Definition" /\ Len(definitions) = Len(last.dict) + 1

BodyLength == Len(definitions[Len(definitions)].definition)

\* C14: after a successful top-level definition at index i with a body of n
\* tokens the next token dispatched is the one at index i+n+3, or the text
\* has ended, and the working stack is the one before the definition
C14_DefinitionSkipsBody ==
  (Accepted /\ last.depth = 1) =>
    /\ work = last.before
    /\ result \notin Errors
    /\ IF last.i + BodyLength + 3 < Len(last.input)
         THEN /\ pc = "running"
              /\ Len(frames) = 1
              /\ Cur.i = last.i + BodyLength + 3
              /\ Cur.input = last.input
         ELSE pc = "idle" /\ result = "Ok" /\ stack = last.before

\* in `1 : foo 1 0 / ; 1` the definition at index 1 has been accepted and
\* the token after its `;`, at index 7, is the next one
C14_Witness ==
  /\ Accepted
  /\ last.i = 1
  /\ last.before = <<1>>
  /\ BodyLength = 3
  /\ pc = "running"
  /\ Cur.i = 7
  /\ CurToken = "1"
  /\ work = <<1>>

\* the number of dictionary entries the loop of frame f sees
Bound(f) == Len(Visible(f))

\* every word body being run sees strictly fewer entries than its caller
\* and none from its own entry on
BoundsDecrease ==
  \A n \in 2..Len(frames) :
    /\ Bound(frames[n]) < Bound(frames[n - 1])
    /\ Bound(frames[n]) < frames[n].entry

\* the depth of nested body executions is at most the number of entries
DepthBounded == Len(frames) - 1 <= Len(definitions)

\* C15: every eval call terminates: each nested body runs under a bound
\* strictly smaller than its caller's, so the nesting depth never exceeds
\* the number of dictionary entries, and a running evaluation ends
C15_Terminates ==
  /\ [](BoundsDecrease /\ DepthBounded)
  /\ (pc = "running") ~> (pc # "running")

\* the second FOO, whose body names foo, is running the first FOO
C15_Witness ==
  /\ Len(frames) = 3
  /\ frames[2].entry = 2
  /\ frames[3].entry = 1
  /\ to_uppercase(definitions[2].word) = "FOO"
  /\ definitions[2].definition = <<"foo">>
  /\ Bound(frames[3]) = 0

\* every entry's snapshot index is its own position, counted from 0, so the
\* slice it bounds holds neither the entry nor more than the dictionary
IndexIsPosition ==
  \A k \in 1..Len(definitions) :
    /\ definitions[k].definitions_index = k - 1
    /\ definitions[k].definitions_index <= Len(definitions)

\* a step keeps every entry as it is and adds at most entries at the end
AppendOnly ==
  /\ Len(definitions') >= Len(definitions)
  /\ SubSeq(definitions', 1, Len(definitions)) = definitions

\* C16: the dictionary is append-only, no entry's name, body or snapshot
\* index ever changes, and every entry's snapshot index is at most, here
\* equal to, its own position
C16_DictionaryAppendOnly == [](IndexIsPosition) /\ [][AppendOnly]_vars

\* BAR has been redefined: both entries are held, with different bodies
C16_Witness ==
  /\ Len(definitions) >= 2
  /\ definitions[1].word = "BAR"
  /\ definitions[2].word = "BAR"
  /\ definitions[1].definition # definitions[2].definition
  /\ last.kind = "Definition"

\* the last dispatch is one that raises the error e
Raises(e) ==
  CASE last.kind = "Void" -> e = "UnknownWord"
    [] last.kind = "Definition" -> e = "InvalidWord" /\ definitions = last.dict
    [] last.kind = "Operator" ->
         \E o \in operate(to_uppercase(last.tok), last.before) : o.err = e
    [] OTHER -> FALSE

\* an error is the end of the call: it is the last dispatch that raised it
\* and no loop is left to dispatch another token
StopsAtError ==
  result \in Errors =>
    /\ pc = "idle"
    /\ frames = <<>>
    /\ Raises(result)
    /\ stack = stack0

\* the step after an error is a new call of eval, not a dispatch
OnlyNewCall == result \in Errors => (last' = NoDispatch /\ used' > used)

\* C17: the first failing token aborts the evaluation: eval returns the
\* error that token raised and no token after it is dispatched
C17_FirstErrorAborts == [](StopsAtError) /\ [][OnlyNewCall]_vars

\* `1 0 / foo` has returned DivisionByZero at `/`, foo being unknown and
\* not dispatched
C17_Witness ==
  /\ Failed
  /\ result = "DivisionByZero"
  /\ last.input = <<"1", "0", "/", "foo">>
  /\ last.i = 2
  /\ definitions = <<>>

\* C18: a token that parses as a signed integer literal always pushes that
\* integer, whatever definitions the dictionary holds
C18_LiteralAlwaysPushes ==
  (last.kind # "none" /\ Parses(last.tok)) =>
    /\ last.kind = "Number"
    /\ work = Append(last.before, ParseValue(last.tok))

\* C19: for every b (under) and a (top) with a # 0, `/` succeeds and leaves
\* in their place the quotient truncated toward zero, a signed 32-bit value,
\* b = -2147483648 with a = -1 included
C19_DivisionTotal ==
  (last.kind = "Operator" /\ last.tok = "/" /\ Len(last.before) >= 2
     /\ OperandY # 0) =>
    /\ result \in {"none", "Ok"}
    /\ pc # "panicked"
    /\ Len(work) = Len(Below) + 1
    /\ MinValue <= work[Len(work)] /\ work[Len(work)] <= MaxValue
    /\ Fits("/", OperandX, OperandY) =>
         IsQuotient(work[Len(work)], OperandX, OperandY)

\* no stored body holds a `;`
NoTerminatorStored ==
  \A k \in 1..Len(definitions) :
    \A n \in 1..Len(definitions[k].definition) :
      definitions[k].definition[n] # ";"

\* a `:` dispatched in a word body fails with InvalidWord and defines nothing
ColonInBodyRejected ==
  (last.kind = "Definition" /\ last.depth > 1) =>
    Failed /\ result = "InvalidWord" /\ definitions = last.dict

\* a step taken while a word body runs leaves the dictionary as it is
BodyAppendsNothing == Len(frames) > 1 => definitions' = definitions

\* C20: the dictionary grows only through top-level tokens: a stored body
\* never holds a `;`, so a `:` in a word body fails with InvalidWord when
\* the word is invoked, and running a body never appends an entry
C20_BodiesDefineNothing ==
  /\ [](NoTerminatorStored /\ ColonInBodyRejected)
  /\ [][BodyAppendsNothing]_vars

\* foo, whose body is `: foo 1`, was invoked in a text with a `;` after the
\* invocation, and its `:` failed
C20_Witness ==
  /\ Failed
  /\ result = "InvalidWord"
  /\ last.kind = "Definition"
  /\ last.depth = 2
  /\ last.input = <<":", "foo", "1">>
  /\ input = <<"foo", ";">>
====
